---- MODULE Spec2Model ----
(***************************************************************************)
(* Model of src/train.py: the BERT4Rec training driver.                    *)
(*                                                                         *)
(*   Spec      the control loop of train_model (epochs, batches,           *)
(*             validation, scheduler, history, checkpoint, early stop,     *)
(*             history file) for drawn configurations.                     *)
(*   PlateauSpec  the same loop on runs long enough for the scheduler to   *)
(*             reduce the learning rate.                                   *)
(*   MaskSpec  load_processed_data followed by mask_items / pad_sequence   *)
(*             on a batch of the loaded data.                              *)
(*                                                                         *)
(* Abstractions.  val_ndcg is an integer count of units of 1e-4, so the    *)
(* tolerance of line 126 is Tol = 1 unit.  Model parameters are the number *)
(* of optimizer steps applied.  Every batch loss is one unit, and a        *)
(* quotient a / b is kept as the pair <<a, b>>.  The learning rate is the  *)
(* number of reductions applied to LR.  In Spec every sequence holds one   *)
(* item (one draw of the generator per sequence masked), and the           *)
(* generator's state is the number of values drawn from it.  In MaskSpec   *)
(* random.random() is a draw from                                          *)
(* 0 .. RandRes-1 (r / RandRes in [0, 1)) and mask_prob is in the same     *)
(* units, from -1 (below 0) to RandRes + 1 (above 1).  An optional value   *)
(* is <<>> (absent) or <<v>>.                                              *)
(***************************************************************************)
EXTENDS Integers, Sequences, FiniteSets, TLC

VARIABLES
    \* ---- train_model ----
    pc,               \* position in train_model
    PATIENCE,         \* utils.config.PATIENCE
    BATCH_SIZE,       \* utils.config.BATCH_SIZE
    epochs,           \* argument epochs
    model_name,       \* argument model_name (None or a file name)
    result_name,      \* argument result_name (None or a file name)
    n_train,          \* len(train_data)
    n_val,            \* len(val_data)
    epoch,            \* loop variable of line 84
    i,                \* batch cursor of line 90 / line 47
    train_loss,       \* line 86, 102
    total_loss,       \* evaluate_val_loss, line 44, 57
    current_lr,       \* line 103 (unbound until the first batch)
    val_loss,         \* line 106
    val_ndcg,         \* line 108
    val_recall,       \* line 109
    history,          \* line 80, 121
    best_ndcg,        \* line 81, 127
    patience_counter, \* line 82, 128, 133
    model_mode,       \* model.train() / model.eval()
    params,           \* model parameters (optimizer steps applied)
    lr,               \* optimizer.param_groups[0]['lr'] (reductions applied)
    sched_best,       \* ReduceLROnPlateau.best
    num_bad_epochs,   \* ReduceLROnPlateau.num_bad_epochs
    checkpoint,       \* models/<model_name> on disk
    ckpt_epoch,       \* epoch whose parameters the checkpoint holds
    ckpt_writes,      \* number of torch.save calls so far
    results_file,     \* results/<result_name> on disk
    file_writes,      \* number of json.dump calls so far
    returned,         \* value returned by train_model
    error,            \* exception that ended the run
    validated,        \* epochs whose validation (lines 106-109) has completed
    rng_draws,        \* values consumed from the random module's generator
    sched_steps,      \* number of scheduler.step calls so far
    batches,          \* batches built so far in the current pass over a dataset
    fed,              \* sequences masked and fed so far in the current pass
    \* ---- load_processed_data / mask_items ----
    mpc,              \* position in load / mask_items
    missing,          \* the files absent from processed_dir
    merror,           \* exception that ended load_processed_data / mask_items
    train_seqs, val_seqs, test_seqs,   \* the three pickled splits
    num_items,        \* line 153
    seqs,             \* argument seqs of mask_items (a batch)
    mask_prob,        \* argument mask_prob
    seq_len,          \* argument seq_len
    padded,           \* line 28
    pos,              \* index of the next item of padded (line 30)
    masked, label,    \* line 29
    masked_seqs, labels   \* line 25

trainVars == <<pc, PATIENCE, BATCH_SIZE, epochs, model_name, result_name,
               n_train, n_val, epoch, i, train_loss, total_loss, current_lr,
               val_loss, val_ndcg, val_recall, history, best_ndcg,
               patience_counter, model_mode, params, lr, sched_best,
               num_bad_epochs, checkpoint, ckpt_epoch, ckpt_writes,
               results_file, file_writes, returned, error, validated,
               rng_draws, sched_steps, batches, fed>>

maskVars == <<mpc, missing, merror, train_seqs, val_seqs, test_seqs,
              num_items, seqs, mask_prob, seq_len, padded, pos, masked, label,
              masked_seqs, labels>>

vars == <<trainVars, maskVars>>

\* ---------------------------------------------------------------- bounds
MaxPatience == 2
MaxEpochs == 3
MaxTrain == 3
MaxVal == 3
MaxBatch == 2
MaxNdcg == 4
MaxSeqs == 2
MaxHeldSeqs == 1
MaxLen == 2
MaxHeldLen == 1
MaxItem == 2
MaxSeqLen == 2
RandRes == 2

\* ------------------------------------------------------ program constants
\* 1e-4 of line 126, in units of 1e-4.
Tol == 1
\* torch.optim.lr_scheduler.ReduceLROnPlateau default patience (line 65).
SchedPatience == 10

None == "None"
NdcgVals == 0..MaxNdcg
\* val_recall takes no part in any decision: one representative value.
RecallVals == {0}

\* Python truthiness of an optional name (line 129).
Truthy(name) == name # None /\ name # ""

\* ---------------------------------------------------------- train_model

\* Line 126: the improvement test.
Improved_NonStrict(ndcg, best) == ndcg >= best + Tol
Improved_NoTolerance(ndcg, best) == ndcg > best
Improved(ndcg, best) == ndcg > best + Tol

\* Line 134: the early-stop test.
PatienceExhausted_Late(counter, patience) == counter > patience
PatienceExhausted(counter, patience) == counter >= patience

\* ReduceLROnPlateau.is_better, mode='max', threshold_mode='rel',
\* threshold=1e-4: a > best * 1.0001, best = -inf at first (here -1).
\* On the integer grid a > best * 1.0001 is a > best.
IsBetter(a, best) == a > best

IdleTrain ==
    /\ pc = "idle" /\ PATIENCE = 0 /\ BATCH_SIZE = 1 /\ epochs = 0
    /\ model_name = None /\ result_name = None /\ n_train = 0 /\ n_val = 0
    /\ epoch = 0 /\ i = 0 /\ train_loss = 0 /\ total_loss = 0
    /\ current_lr = <<>> /\ val_loss = <<>> /\ val_ndcg = 0 /\ val_recall = 0
    /\ history = <<>> /\ best_ndcg = 0 /\ patience_counter = 0
    /\ model_mode = "train" /\ params = 0 /\ lr = 0 /\ sched_best = -1
    /\ num_bad_epochs = 0 /\ checkpoint = <<>> /\ ckpt_epoch = 0
    /\ ckpt_writes = 0 /\ results_file = <<>> /\ file_writes = 0
    /\ returned = <<>> /\ error = None /\ validated = 0
    /\ rng_draws = 0 /\ sched_steps = 0 /\ batches = 0 /\ fed = 0

IdleMask ==
    /\ mpc = "idle" /\ missing = {} /\ merror = None
    /\ train_seqs = <<>> /\ val_seqs = <<>> /\ test_seqs = <<>>
    /\ num_items = 0 /\ seqs = <<>> /\ mask_prob = 0 /\ seq_len = 0
    /\ padded = <<>> /\ pos = 0 /\ masked = <<>> /\ label = <<>>
    /\ masked_seqs = <<>> /\ labels = <<>>

\* Line 87: random.shuffle of n elements draws once per element but the
\* first (none for an empty or one-element list).
ShuffleDraws(n) == IF n > 1 THEN n - 1 ELSE 0

\* Lines 91 and 48: the length of data[c : c + BATCH_SIZE] with len(data) = n.
BatchLen(c, n) == IF n - c < BATCH_SIZE THEN n - c ELSE BATCH_SIZE

\* Lines 89 and 46: the step of range(0, len(data), BATCH_SIZE).
NextCursor_ByOne(c) == c + 1
NextCursor(c) == c + BATCH_SIZE

\* The call train_model(model, train_data, val_data, ...) about to start.
Init ==
    /\ pc = "setup"
    /\ PATIENCE \in 0..MaxPatience
    /\ BATCH_SIZE \in 1..MaxBatch
    /\ epochs \in 0..MaxEpochs
    /\ model_name \in {None, "best.pt"}
    /\ result_name \in {None, "config_1.json"}
    /\ n_train \in 0..MaxTrain
    /\ n_val \in 0..MaxVal
    /\ epoch = 0 /\ i = 0 /\ train_loss = 0 /\ total_loss = 0
    /\ current_lr = <<>> /\ val_loss = <<>> /\ val_ndcg = 0 /\ val_recall = 0
    /\ history = <<>> /\ best_ndcg = 0 /\ patience_counter = 0
    /\ model_mode = "train" /\ params = 0 /\ lr = 0 /\ sched_best = -1
    /\ num_bad_epochs = 0 /\ checkpoint = <<>> /\ ckpt_epoch = 0
    /\ ckpt_writes = 0 /\ results_file = <<>> /\ file_writes = 0
    /\ returned = <<>> /\ error = None /\ validated = 0
    /\ rng_draws = 0 /\ sched_steps = 0 /\ batches = 0 /\ fed = 0
    /\ IdleMask

\* Lines 63-82: optimizer, criterion, scheduler, history, best, counter.
Setup ==
    /\ pc = "setup"
    /\ lr' = 0
    /\ sched_best' = -1
    /\ num_bad_epochs' = 0
    /\ history' = <<>>
    /\ best_ndcg' = 0
    /\ patience_counter' = 0
    /\ pc' = "for"
    /\ UNCHANGED <<PATIENCE, BATCH_SIZE, epochs, model_name, result_name,
                   n_train, n_val, epoch, i, train_loss, total_loss,
                   current_lr, val_loss, val_ndcg, val_recall, model_mode,
                   params, checkpoint, ckpt_epoch, ckpt_writes, results_file,
                   file_writes, returned, error>>
    /\ UNCHANGED validated
    /\ UNCHANGED <<rng_draws, sched_steps, batches, fed>>
    /\ UNCHANGED maskVars

\* Lines 84-89: the next epoch starts (train mode, loss reset, shuffle).
EpochBegin ==
    /\ pc = "for"
    /\ epoch < epochs
    /\ epoch' = epoch + 1
    /\ model_mode' = "train"
    /\ train_loss' = 0
    /\ i' = 0
    /\ pc' = "train"
    /\ UNCHANGED <<PATIENCE, BATCH_SIZE, epochs, model_name, result_name,
                   n_train, n_val, total_loss, current_lr, val_loss, val_ndcg,
                   val_recall, history, best_ndcg, patience_counter, params,
                   lr, sched_best, num_bad_epochs, checkpoint, ckpt_epoch,
                   ckpt_writes, results_file, file_writes, returned, error>>
    /\ UNCHANGED validated
    /\ rng_draws' = rng_draws + ShuffleDraws(n_train)
    /\ batches' = 0
    /\ fed' = 0
    /\ UNCHANGED sched_steps
    /\ UNCHANGED maskVars

\* Line 84: range(1, epochs + 1) is exhausted.
LoopExhausted ==
    /\ pc = "for"
    /\ epoch >= epochs
    /\ pc' = "persist"
    /\ UNCHANGED <<PATIENCE, BATCH_SIZE, epochs, model_name, result_name,
                   n_train, n_val, epoch, i, train_loss, total_loss,
                   current_lr, val_loss, val_ndcg, val_recall, history,
                   best_ndcg, patience_counter, model_mode, params, lr,
                   sched_best, num_bad_epochs, checkpoint, ckpt_epoch,
                   ckpt_writes, results_file, file_writes, returned, error>>
    /\ UNCHANGED validated
    /\ UNCHANGED <<rng_draws, sched_steps, batches, fed>>
    /\ UNCHANGED maskVars

\* Lines 90-104: one training batch, train_data[i : i + BATCH_SIZE].
TrainBatch ==
    /\ pc = "train"
    /\ i < n_train
    /\ params' = params + 1
    /\ train_loss' = train_loss + 1
    /\ current_lr' = <<lr>>
    /\ i' = NextCursor(i)
    /\ UNCHANGED <<pc, PATIENCE, BATCH_SIZE, epochs, model_name, result_name,
                   n_train, n_val, epoch, total_loss, val_loss, val_ndcg,
                   val_recall, history, best_ndcg, patience_counter,
                   model_mode, lr, sched_best, num_bad_epochs, checkpoint,
                   ckpt_epoch, ckpt_writes, results_file, file_writes,
                   returned, error>>
    /\ UNCHANGED validated
    /\ rng_draws' = rng_draws + BatchLen(i, n_train)
    /\ batches' = batches + 1
    /\ fed' = fed + BatchLen(i, n_train)
    /\ UNCHANGED sched_steps
    /\ UNCHANGED maskVars

\* TrainStepFail with the exception caught and the batch skipped.
TrainStepFail_Swallowed ==
    /\ pc = "train"
    /\ i < n_train
    /\ error' = "RuntimeError"
    /\ i' = NextCursor(i)
    /\ UNCHANGED <<pc, PATIENCE, BATCH_SIZE, epochs, model_name, result_name,
                   n_train, n_val, epoch, train_loss, total_loss,
                   current_lr, val_loss, val_ndcg, val_recall, history,
                   best_ndcg, patience_counter, model_mode, params, lr,
                   sched_best, num_bad_epochs, checkpoint, ckpt_epoch,
                   ckpt_writes, results_file, file_writes, returned>>
    /\ UNCHANGED validated
    /\ UNCHANGED <<rng_draws, sched_steps, batches, fed>>
    /\ UNCHANGED maskVars

\* Lines 95-100: the forward, backward or optimizer step raises.
TrainStepFail ==
    /\ pc = "train"
    /\ i < n_train
    /\ error' = "RuntimeError"
    /\ pc' = "raised"
    /\ UNCHANGED <<PATIENCE, BATCH_SIZE, epochs, model_name, result_name,
                   n_train, n_val, epoch, i, train_loss, total_loss,
                   current_lr, val_loss, val_ndcg, val_recall, history,
                   best_ndcg, patience_counter, model_mode, params, lr,
                   sched_best, num_bad_epochs, checkpoint, ckpt_epoch,
                   ckpt_writes, results_file, file_writes, returned>>
    /\ UNCHANGED validated
    /\ UNCHANGED <<rng_draws, sched_steps, batches, fed>>
    /\ UNCHANGED maskVars

\* Line 90 exhausted, then lines 43-46: evaluate_val_loss is entered.
ValBegin ==
    /\ pc = "train"
    /\ i >= n_train
    /\ model_mode' = "eval"
    /\ total_loss' = 0
    /\ i' = 0
    /\ pc' = "val"
    /\ UNCHANGED <<PATIENCE, BATCH_SIZE, epochs, model_name, result_name,
                   n_train, n_val, epoch, train_loss, current_lr, val_loss,
                   val_ndcg, val_recall, history, best_ndcg, patience_counter,
                   params, lr, sched_best, num_bad_epochs, checkpoint,
                   ckpt_epoch, ckpt_writes, results_file, file_writes,
                   returned, error>>
    /\ UNCHANGED validated
    /\ batches' = 0
    /\ fed' = 0
    /\ UNCHANGED <<rng_draws, sched_steps>>
    /\ UNCHANGED maskVars

\* ValBatch with an optimizer step applied to the validation batch.
ValBatch_TrainsModel ==
    /\ pc = "val"
    /\ i < n_val
    /\ total_loss' = total_loss + 1
    /\ params' = params + 1
    /\ i' = NextCursor(i)
    /\ UNCHANGED <<pc, PATIENCE, BATCH_SIZE, epochs, model_name, result_name,
                   n_train, n_val, epoch, train_loss, current_lr, val_loss,
                   val_ndcg, val_recall, history, best_ndcg, patience_counter,
                   model_mode, lr, sched_best, num_bad_epochs,
                   checkpoint, ckpt_epoch, ckpt_writes, results_file,
                   file_writes, returned, error>>
    /\ UNCHANGED validated
    /\ rng_draws' = rng_draws + BatchLen(i, n_val)
    /\ batches' = batches + 1
    /\ fed' = fed + BatchLen(i, n_val)
    /\ UNCHANGED sched_steps
    /\ UNCHANGED maskVars

\* Lines 47-57: one validation batch, val_data[i : i + BATCH_SIZE].
ValBatch ==
    /\ pc = "val"
    /\ i < n_val
    /\ total_loss' = total_loss + 1
    /\ i' = NextCursor(i)
    /\ UNCHANGED <<pc, PATIENCE, BATCH_SIZE, epochs, model_name, result_name,
                   n_train, n_val, epoch, train_loss, current_lr, val_loss,
                   val_ndcg, val_recall, history, best_ndcg, patience_counter,
                   model_mode, params, lr, sched_best, num_bad_epochs,
                   checkpoint, ckpt_epoch, ckpt_writes, results_file,
                   file_writes, returned, error>>
    /\ UNCHANGED validated
    /\ rng_draws' = rng_draws + BatchLen(i, n_val)
    /\ batches' = batches + 1
    /\ fed' = fed + BatchLen(i, n_val)
    /\ UNCHANGED sched_steps
    /\ UNCHANGED maskVars

\* Line 59 and line 106: total_loss / len(val_data) is returned.
ValReturn ==
    /\ pc = "val"
    /\ i >= n_val
    /\ n_val # 0
    /\ val_loss' = <<total_loss, n_val>>
    /\ pc' = "metrics"
    /\ UNCHANGED <<PATIENCE, BATCH_SIZE, epochs, model_name, result_name,
                   n_train, n_val, epoch, i, train_loss, total_loss,
                   current_lr, val_ndcg, val_recall, history, best_ndcg,
                   patience_counter, model_mode, params, lr, sched_best,
                   num_bad_epochs, checkpoint, ckpt_epoch, ckpt_writes,
                   results_file, file_writes, returned, error>>
    /\ UNCHANGED validated
    /\ UNCHANGED <<rng_draws, sched_steps, batches, fed>>
    /\ UNCHANGED maskVars

\* Line 59 with an empty val_data: division by zero.
ValDivideByZero ==
    /\ pc = "val"
    /\ i >= n_val
    /\ n_val = 0
    /\ error' = "ZeroDivisionError:59"
    /\ pc' = "raised"
    /\ UNCHANGED <<PATIENCE, BATCH_SIZE, epochs, model_name, result_name,
                   n_train, n_val, epoch, i, train_loss, total_loss,
                   current_lr, val_loss, val_ndcg, val_recall, history,
                   best_ndcg, patience_counter, model_mode, params, lr,
                   sched_best, num_bad_epochs, checkpoint, ckpt_epoch,
                   ckpt_writes, results_file, file_writes, returned>>
    /\ UNCHANGED validated
    /\ UNCHANGED <<rng_draws, sched_steps, batches, fed>>
    /\ UNCHANGED maskVars

\* Lines 107-109: the ranking metrics of the external evaluate_model.
EvaluateModelFrom(vals) ==
    /\ pc = "metrics"
    /\ \E ndcg \in vals, recall \in RecallVals :
         /\ val_ndcg' = ndcg
         /\ val_recall' = recall
    /\ pc' = "sched"
    /\ UNCHANGED <<PATIENCE, BATCH_SIZE, epochs, model_name, result_name,
                   n_train, n_val, epoch, i, train_loss, total_loss,
                   current_lr, val_loss, history, best_ndcg, patience_counter,
                   model_mode, params, lr, sched_best, num_bad_epochs,
                   checkpoint, ckpt_epoch, ckpt_writes, results_file,
                   file_writes, returned, error>>
    /\ validated' = validated + 1
    /\ UNCHANGED <<rng_draws, sched_steps, batches, fed>>
    /\ UNCHANGED maskVars

EvaluateModel == EvaluateModelFrom(NdcgVals)

\* Line 111: scheduler.step(val_ndcg) of ReduceLROnPlateau(mode='max').
SchedulerStep ==
    /\ pc = "sched"
    /\ LET better == IsBetter(val_ndcg, sched_best)
           bad == IF better THEN 0 ELSE num_bad_epochs + 1
       IN /\ sched_best' = IF better THEN val_ndcg ELSE sched_best
          /\ lr' = IF bad > SchedPatience THEN lr + 1 ELSE lr
          /\ num_bad_epochs' = IF bad > SchedPatience THEN 0 ELSE bad
    /\ pc' = "append"
    /\ UNCHANGED <<PATIENCE, BATCH_SIZE, epochs, model_name, result_name,
                   n_train, n_val, epoch, i, train_loss, total_loss,
                   current_lr, val_loss, val_ndcg, val_recall, history,
                   best_ndcg, patience_counter, model_mode, params,
                   checkpoint, ckpt_epoch, ckpt_writes, results_file,
                   file_writes, returned, error>>
    /\ UNCHANGED validated
    /\ sched_steps' = sched_steps + 1
    /\ UNCHANGED <<rng_draws, batches, fed>>
    /\ UNCHANGED maskVars

\* The record with the optimizer's lr read at line 119 instead of the
\* current_lr of line 103.
LogEntry_LrAfterStep ==
    [epoch |-> epoch,
     train_loss |-> <<train_loss, n_train>>,
     val_loss |-> val_loss,
     val_ndcg |-> val_ndcg,
     val_recall |-> val_recall,
     lr |-> lr]

\* Lines 113-120: the record of the epoch.
LogEntry ==
    [epoch |-> epoch,
     train_loss |-> <<train_loss, n_train>>,
     val_loss |-> val_loss,
     val_ndcg |-> val_ndcg,
     val_recall |-> val_recall,
     lr |-> current_lr[1]]

\* Lines 113-121: the record is appended to history.
AppendHistory_Replace ==
    /\ pc = "append"
    /\ n_train # 0
    /\ history' = <<LogEntry>>
    /\ pc' = "decide"
    /\ UNCHANGED <<PATIENCE, BATCH_SIZE, epochs, model_name, result_name,
                   n_train, n_val, epoch, i, train_loss, total_loss,
                   current_lr, val_loss, val_ndcg, val_recall, best_ndcg,
                   patience_counter, model_mode, params, lr, sched_best,
                   num_bad_epochs, checkpoint, ckpt_epoch, ckpt_writes,
                   results_file, file_writes, returned, error>>
    /\ UNCHANGED validated
    /\ UNCHANGED <<rng_draws, sched_steps, batches, fed>>
    /\ UNCHANGED maskVars

AppendHistory ==
    /\ pc = "append"
    /\ n_train # 0
    /\ history' = Append(history, LogEntry)
    /\ pc' = "decide"
    /\ UNCHANGED <<PATIENCE, BATCH_SIZE, epochs, model_name, result_name,
                   n_train, n_val, epoch, i, train_loss, total_loss,
                   current_lr, val_loss, val_ndcg, val_recall, best_ndcg,
                   patience_counter, model_mode, params, lr, sched_best,
                   num_bad_epochs, checkpoint, ckpt_epoch, ckpt_writes,
                   results_file, file_writes, returned, error>>
    /\ UNCHANGED validated
    /\ UNCHANGED <<rng_draws, sched_steps, batches, fed>>
    /\ UNCHANGED maskVars

\* Line 115 with an empty train_data: division by zero.
LogEntryDivideByZero ==
    /\ pc = "append"
    /\ n_train = 0
    /\ error' = "ZeroDivisionError:115"
    /\ pc' = "raised"
    /\ UNCHANGED <<PATIENCE, BATCH_SIZE, epochs, model_name, result_name,
                   n_train, n_val, epoch, i, train_loss, total_loss,
                   current_lr, val_loss, val_ndcg, val_recall, history,
                   best_ndcg, patience_counter, model_mode, params, lr,
                   sched_best, num_bad_epochs, checkpoint, ckpt_epoch,
                   ckpt_writes, results_file, file_writes, returned>>
    /\ UNCHANGED validated
    /\ UNCHANGED <<rng_draws, sched_steps, batches, fed>>
    /\ UNCHANGED maskVars

\* NewBest with the assignment of line 127 lost.
NewBest_BestNotUpdated ==
    /\ pc = "decide"
    /\ Improved(val_ndcg, best_ndcg)
    /\ patience_counter' = 0
    /\ IF Truthy(model_name)
         THEN /\ checkpoint' = <<params>>
              /\ ckpt_epoch' = epoch
              /\ ckpt_writes' = ckpt_writes + 1
         ELSE UNCHANGED <<checkpoint, ckpt_epoch, ckpt_writes>>
    /\ pc' = "for"
    /\ UNCHANGED <<PATIENCE, BATCH_SIZE, epochs, model_name, result_name,
                   n_train, n_val, epoch, i, train_loss, total_loss,
                   current_lr, val_loss, val_ndcg, val_recall, history,
                   best_ndcg, model_mode, params, lr, sched_best,
                   num_bad_epochs, results_file, file_writes, returned,
                   error>>
    /\ UNCHANGED validated
    /\ UNCHANGED <<rng_draws, sched_steps, batches, fed>>
    /\ UNCHANGED maskVars

\* NewBest with the reset of line 128 lost.
NewBest_CounterKept ==
    /\ pc = "decide"
    /\ Improved(val_ndcg, best_ndcg)
    /\ best_ndcg' = val_ndcg
    /\ IF Truthy(model_name)
         THEN /\ checkpoint' = <<params>>
              /\ ckpt_epoch' = epoch
              /\ ckpt_writes' = ckpt_writes + 1
         ELSE UNCHANGED <<checkpoint, ckpt_epoch, ckpt_writes>>
    /\ pc' = "for"
    /\ UNCHANGED <<PATIENCE, BATCH_SIZE, epochs, model_name, result_name,
                   n_train, n_val, epoch, i, train_loss, total_loss,
                   current_lr, val_loss, val_ndcg, val_recall, history,
                   patience_counter, model_mode, params, lr, sched_best,
                   num_bad_epochs, results_file, file_writes, returned,
                   error>>
    /\ UNCHANGED validated
    /\ UNCHANGED <<rng_draws, sched_steps, batches, fed>>
    /\ UNCHANGED maskVars

\* Lines 126-131: a new best; the counter is reset and, when a model_name
\* was given, the parameters are saved over the checkpoint.
NewBest ==
    /\ pc = "decide"
    /\ Improved(val_ndcg, best_ndcg)
    /\ best_ndcg' = val_ndcg
    /\ patience_counter' = 0
    /\ IF Truthy(model_name)
         THEN /\ checkpoint' = <<params>>
              /\ ckpt_epoch' = epoch
              /\ ckpt_writes' = ckpt_writes + 1
         ELSE UNCHANGED <<checkpoint, ckpt_epoch, ckpt_writes>>
    /\ pc' = "for"
    /\ UNCHANGED <<PATIENCE, BATCH_SIZE, epochs, model_name, result_name,
                   n_train, n_val, epoch, i, train_loss, total_loss,
                   current_lr, val_loss, val_ndcg, val_recall, history,
                   model_mode, params, lr, sched_best, num_bad_epochs,
                   results_file, file_writes, returned, error>>
    /\ UNCHANGED validated
    /\ UNCHANGED <<rng_draws, sched_steps, batches, fed>>
    /\ UNCHANGED maskVars

\* Lines 132-134: no new best, patience left; the loop goes on.
StallContinue ==
    /\ pc = "decide"
    /\ ~Improved(val_ndcg, best_ndcg)
    /\ patience_counter' = patience_counter + 1
    /\ ~PatienceExhausted(patience_counter', PATIENCE)
    /\ pc' = "for"
    /\ UNCHANGED <<PATIENCE, BATCH_SIZE, epochs, model_name, result_name,
                   n_train, n_val, epoch, i, train_loss, total_loss,
                   current_lr, val_loss, val_ndcg, val_recall, history,
                   best_ndcg, model_mode, params, lr, sched_best,
                   num_bad_epochs, checkpoint, ckpt_epoch, ckpt_writes,
                   results_file, file_writes, returned, error>>
    /\ UNCHANGED validated
    /\ UNCHANGED <<rng_draws, sched_steps, batches, fed>>
    /\ UNCHANGED maskVars

\* Lines 132-136: no new best, patience exhausted; break.
EarlyStop ==
    /\ pc = "decide"
    /\ ~Improved(val_ndcg, best_ndcg)
    /\ patience_counter' = patience_counter + 1
    /\ PatienceExhausted(patience_counter', PATIENCE)
    /\ pc' = "persist"
    /\ UNCHANGED <<PATIENCE, BATCH_SIZE, epochs, model_name, result_name,
                   n_train, n_val, epoch, i, train_loss, total_loss,
                   current_lr, val_loss, val_ndcg, val_recall, history,
                   best_ndcg, model_mode, params, lr, sched_best,
                   num_bad_epochs, checkpoint, ckpt_epoch, ckpt_writes,
                   results_file, file_writes, returned, error>>
    /\ UNCHANGED validated
    /\ UNCHANGED <<rng_draws, sched_steps, batches, fed>>
    /\ UNCHANGED maskVars

\* Lines 138-140: history is dumped to results/<result_name>.
WriteHistory ==
    /\ pc = "persist"
    /\ result_name # None
    /\ results_file' = <<history>>
    /\ file_writes' = file_writes + 1
    /\ pc' = "return"
    /\ UNCHANGED <<PATIENCE, BATCH_SIZE, epochs, model_name, result_name,
                   n_train, n_val, epoch, i, train_loss, total_loss,
                   current_lr, val_loss, val_ndcg, val_recall, history,
                   best_ndcg, patience_counter, model_mode, params, lr,
                   sched_best, num_bad_epochs, checkpoint, ckpt_epoch,
                   ckpt_writes, returned, error>>
    /\ UNCHANGED validated
    /\ UNCHANGED <<rng_draws, sched_steps, batches, fed>>
    /\ UNCHANGED maskVars

\* Line 139 with result_name = None (its default): os.path.join raises
\* TypeError, nothing is written and nothing is returned.
WriteHistoryTypeError ==
    /\ pc = "persist"
    /\ result_name = None
    /\ error' = "TypeError"
    /\ pc' = "raised"
    /\ UNCHANGED <<PATIENCE, BATCH_SIZE, epochs, model_name, result_name,
                   n_train, n_val, epoch, i, train_loss, total_loss,
                   current_lr, val_loss, val_ndcg, val_recall, history,
                   best_ndcg, patience_counter, model_mode, params, lr,
                   sched_best, num_bad_epochs, checkpoint, ckpt_epoch,
                   ckpt_writes, results_file, file_writes, returned>>
    /\ UNCHANGED validated
    /\ UNCHANGED <<rng_draws, sched_steps, batches, fed>>
    /\ UNCHANGED maskVars

\* Line 142.
Return ==
    /\ pc = "return"
    /\ returned' = <<history>>
    /\ pc' = "done"
    /\ UNCHANGED <<PATIENCE, BATCH_SIZE, epochs, model_name, result_name,
                   n_train, n_val, epoch, i, train_loss, total_loss,
                   current_lr, val_loss, val_ndcg, val_recall, history,
                   best_ndcg, patience_counter, model_mode, params, lr,
                   sched_best, num_bad_epochs, checkpoint, ckpt_epoch,
                   ckpt_writes, results_file, file_writes, error>>
    /\ UNCHANGED validated
    /\ UNCHANGED <<rng_draws, sched_steps, batches, fed>>
    /\ UNCHANGED maskVars

Next ==
    \/ Setup
    \/ EpochBegin
    \/ LoopExhausted
    \/ TrainBatch
    \/ TrainStepFail
    \/ ValBegin
    \/ ValBatch
    \/ ValReturn
    \/ ValDivideByZero
    \/ EvaluateModel
    \/ SchedulerStep
    \/ AppendHistory
    \/ LogEntryDivideByZero
    \/ NewBest
    \/ StallContinue
    \/ EarlyStop
    \/ WriteHistory
    \/ WriteHistoryTypeError
    \/ Return

Spec == Init /\ [][Next]_vars

\* ------------------------------------------------------------------------
\* train_model on a plateau: a run long enough for ReduceLROnPlateau to
\* reduce the learning rate (more than SchedPatience epochs without a new
\* scheduler best), with the early-stop patience out of its way and
\* val_ndcg either 0 or twice the tolerance.
\* ------------------------------------------------------------------------
PlateauEpochs == SchedPatience + 3
PlateauVals == {0, 2 * Tol}

PlateauInit ==
    /\ pc = "setup"
    /\ PATIENCE = PlateauEpochs
    /\ BATCH_SIZE = 1
    /\ epochs = PlateauEpochs
    /\ model_name = "best.pt"
    /\ result_name \in {None, "config_1.json"}
    /\ n_train \in {0, MaxTrain}
    /\ n_val \in {0, MaxVal}
    /\ epoch = 0 /\ i = 0 /\ train_loss = 0 /\ total_loss = 0
    /\ current_lr = <<>> /\ val_loss = <<>> /\ val_ndcg = 0 /\ val_recall = 0
    /\ history = <<>> /\ best_ndcg = 0 /\ patience_counter = 0
    /\ model_mode = "train" /\ params = 0 /\ lr = 0 /\ sched_best = -1
    /\ num_bad_epochs = 0 /\ checkpoint = <<>> /\ ckpt_epoch = 0
    /\ ckpt_writes = 0 /\ results_file = <<>> /\ file_writes = 0
    /\ returned = <<>> /\ error = None /\ validated = 0
    /\ rng_draws = 0 /\ sched_steps = 0 /\ batches = 0 /\ fed = 0
    /\ IdleMask

PlateauEvaluateModel == EvaluateModelFrom(PlateauVals)

PlateauNext ==
    \/ Setup
    \/ EpochBegin
    \/ LoopExhausted
    \/ TrainBatch
    \/ TrainStepFail
    \/ ValBegin
    \/ ValBatch
    \/ ValReturn
    \/ ValDivideByZero
    \/ PlateauEvaluateModel
    \/ SchedulerStep
    \/ AppendHistory
    \/ LogEntryDivideByZero
    \/ NewBest
    \/ StallContinue
    \/ EarlyStop
    \/ WriteHistory
    \/ WriteHistoryTypeError
    \/ Return

PlateauSpec == PlateauInit /\ [][PlateauNext]_vars

\* ------------------------------------------------------------------------
\* load_processed_data, pad_sequence, mask_items
\* ------------------------------------------------------------------------

\* All sequences over S of length at most n.
SeqsUpTo(S, n) == UNION {[1..m -> S] : m \in 0..n}

Items == 0..MaxItem
MaxOfSet(S) == CHOOSE x \in S : \A y \in S : y <= x
Zeros(n) == [j \in 1..n |-> 0]

\* Python seq[start:] (a negative start counts from the end, and both are
\* clamped to the sequence).
SliceFrom(seq, start) ==
    LET n == Len(seq)
        from == IF start < 0
                  THEN (IF n + start < 0 THEN 0 ELSE n + start)
                  ELSE (IF start > n THEN n ELSE start)
    IN  SubSeq(seq, from + 1, n)

\* Lines 18-21.
pad_sequence_RightPad(seq, max_len) ==
    IF Len(seq) >= max_len
      THEN SliceFrom(seq, 0 - max_len)
      ELSE seq \o Zeros(max_len - Len(seq))
pad_sequence(seq, max_len) ==
    IF Len(seq) >= max_len
      THEN SliceFrom(seq, 0 - max_len)
      ELSE Zeros(max_len - Len(seq)) \o seq

\* Line 24.
MaskId_IsNumItems(n) == n
MaskId(n) == n + 1
MASK_ID == MaskId(num_items)

\* Line 31: the item is masked (r is the draw of random.random()).
Selected_PaddingToo(item, r, prob) == r < prob
Selected_Inverted(item, r, prob) == item # 0 /\ r > prob
Selected_Inclusive(item, r, prob) == item # 0 /\ r <= prob
Selected(item, r, prob) == item # 0 /\ r < prob

\* Lines 32 and 35: the value appended to masked.
MaskedValue(item, sel, mask_id) == IF sel THEN mask_id ELSE item
\* Lines 33 and 36: the value appended to label.
LabelValue_Always(item, sel) == item
LabelValue(item, sel) == IF sel THEN item ELSE 0

\* Line 152: the non-zero items of the three splits together.
AllItems_WithZero(tr, va, te) ==
    LET all == tr \o va \o te
    IN  {x \in Items : \E a \in DOMAIN all : \E b \in DOMAIN all[a] :
                         all[a][b] = x}
AllItems_TrainOnly(tr, va, te) ==
    {x \in Items : \E a \in DOMAIN tr : \E b \in DOMAIN tr[a] :
                      tr[a][b] = x /\ x # 0}
AllItems(tr, va, te) ==
    LET all == tr \o va \o te
    IN  {x \in Items : \E a \in DOMAIN all : \E b \in DOMAIN all[a] :
                         all[a][b] = x /\ x # 0}

\* The three files load_processed_data opens (lines 145-150).
Files == {"train_seqs.pkl", "val_seqs.pkl", "test_seqs.pkl"}

\* The pickled files about to be read (an absent file has no content), and
\* the arguments that train_model will hand to mask_items.
MaskInit ==
    /\ IdleTrain
    /\ mpc = "load"
    /\ missing \in SUBSET Files
    /\ merror = None
    /\ train_seqs \in SeqsUpTo(SeqsUpTo(Items, MaxLen), MaxSeqs)
    /\ val_seqs \in SeqsUpTo(SeqsUpTo(Items, MaxHeldLen), MaxHeldSeqs)
    /\ test_seqs \in SeqsUpTo(SeqsUpTo(Items, MaxHeldLen), MaxHeldSeqs)
    /\ "train_seqs.pkl" \in missing => train_seqs = <<>>
    /\ "val_seqs.pkl" \in missing => val_seqs = <<>>
    /\ "test_seqs.pkl" \in missing => test_seqs = <<>>
    /\ mask_prob \in (0 - 1)..(RandRes + 1)
    /\ seq_len \in 0..MaxSeqLen
    /\ num_items = 0 /\ seqs = <<>> /\ padded = <<>> /\ pos = 0
    /\ masked = <<>> /\ label = <<>> /\ masked_seqs = <<>> /\ labels = <<>>

\* Lines 145-150 with a file absent: open() raises and nothing is returned.
LoadFileNotFound ==
    /\ mpc = "load"
    /\ missing # {}
    /\ merror' = "FileNotFoundError"
    /\ mpc' = "raised"
    /\ UNCHANGED <<missing, train_seqs, val_seqs, test_seqs, num_items, seqs,
                   mask_prob, seq_len, padded, pos, masked, label,
                   masked_seqs, labels>>
    /\ UNCHANGED trainVars

\* Lines 145-155 with at least one non-zero item in the splits.
LoadProcessedData ==
    /\ mpc = "load"
    /\ missing = {}
    /\ AllItems(train_seqs, val_seqs, test_seqs) # {}
    /\ num_items' = MaxOfSet(AllItems(train_seqs, val_seqs, test_seqs))
    /\ mpc' = "loaded"
    /\ UNCHANGED <<missing, train_seqs, val_seqs, test_seqs, seqs, mask_prob,
                   seq_len, padded, pos, masked, label, masked_seqs, labels>>
    /\ UNCHANGED merror
    /\ UNCHANGED trainVars

\* Line 153 with no non-zero item at all: max() of an empty set raises.
LoadEmptyVocabulary ==
    /\ mpc = "load"
    /\ missing = {}
    /\ AllItems(train_seqs, val_seqs, test_seqs) = {}
    /\ merror' = "ValueError:153"
    /\ mpc' = "raised"
    /\ UNCHANGED <<missing, train_seqs, val_seqs, test_seqs, num_items, seqs,
                   mask_prob, seq_len, padded, pos, masked, label,
                   masked_seqs, labels>>
    /\ UNCHANGED trainVars

\* Lines 91-92 / 48-49 and 23-25: mask_items is called on a batch, a
\* non-empty contiguous slice of train_data or val_data.
MaskItemsCall ==
    /\ mpc = "loaded"
    /\ \E data \in {train_seqs, val_seqs} :
         \E a \in 1..Len(data) : \E b \in a..Len(data) :
            seqs' = SubSeq(data, a, b)
    /\ masked_seqs' = <<>>
    /\ labels' = <<>>
    /\ mpc' = "seq"
    /\ UNCHANGED <<missing, train_seqs, val_seqs, test_seqs, num_items,
                   mask_prob, seq_len, padded, pos, masked, label>>
    /\ UNCHANGED merror
    /\ UNCHANGED trainVars

\* Lines 27-29: the next sequence of the batch is padded.
NextSeq ==
    /\ mpc = "seq"
    /\ Len(masked_seqs) < Len(seqs)
    /\ padded' = pad_sequence(seqs[Len(masked_seqs) + 1], seq_len)
    /\ masked' = <<>>
    /\ label' = <<>>
    /\ pos' = 1
    /\ mpc' = "item"
    /\ UNCHANGED <<missing, train_seqs, val_seqs, test_seqs, num_items, seqs,
                   mask_prob, seq_len, masked_seqs, labels>>
    /\ UNCHANGED merror
    /\ UNCHANGED trainVars

\* Lines 30-36: the next item of the padded sequence.
MaskItem ==
    /\ mpc = "item"
    /\ pos <= Len(padded)
    /\ \E r \in 0..(RandRes - 1) :
         LET item == padded[pos]
             sel == Selected(item, r, mask_prob)
         IN  /\ masked' = Append(masked, MaskedValue(item, sel, MASK_ID))
             /\ label' = Append(label, LabelValue(item, sel))
    /\ pos' = pos + 1
    /\ UNCHANGED <<mpc, missing, train_seqs, val_seqs, test_seqs, num_items,
                   seqs, mask_prob, seq_len, padded, masked_seqs, labels>>
    /\ UNCHANGED merror
    /\ UNCHANGED trainVars

\* Lines 37-38: the row is finished.
EndSeq ==
    /\ mpc = "item"
    /\ pos > Len(padded)
    /\ masked_seqs' = Append(masked_seqs, masked)
    /\ labels' = Append(labels, label)
    /\ mpc' = "seq"
    /\ UNCHANGED <<missing, train_seqs, val_seqs, test_seqs, num_items, seqs,
                   mask_prob, seq_len, padded, pos, masked, label>>
    /\ UNCHANGED merror
    /\ UNCHANGED trainVars

\* The rows of a matrix have one length.
Rectangular(rows) == \A a, b \in DOMAIN rows : Len(rows[a]) = Len(rows[b])

\* Line 40: both lists become tensors.
MaskItemsReturn ==
    /\ mpc = "seq"
    /\ Len(masked_seqs) = Len(seqs)
    /\ Rectangular(masked_seqs)
    /\ mpc' = "done"
    /\ UNCHANGED <<missing, train_seqs, val_seqs, test_seqs, num_items, seqs,
                   mask_prob, seq_len, padded, pos, masked, label,
                   masked_seqs, labels>>
    /\ UNCHANGED merror
    /\ UNCHANGED trainVars

\* Line 40 with rows of different lengths: torch.LongTensor raises.
MaskItemsRagged ==
    /\ mpc = "seq"
    /\ Len(masked_seqs) = Len(seqs)
    /\ ~Rectangular(masked_seqs)
    /\ merror' = "ValueError:40"
    /\ mpc' = "raised"
    /\ UNCHANGED <<missing, train_seqs, val_seqs, test_seqs, num_items, seqs,
                   mask_prob, seq_len, padded, pos, masked, label,
                   masked_seqs, labels>>
    /\ UNCHANGED trainVars

MaskNext ==
    \/ LoadProcessedData
    \/ LoadFileNotFound
    \/ LoadEmptyVocabulary
    \/ MaskItemsCall
    \/ NextSeq
    \/ MaskItem
    \/ EndSeq
    \/ MaskItemsReturn
    \/ MaskItemsRagged

MaskSpec == MaskInit /\ [][MaskNext]_vars

\* ------------------------------------------------------------------------
\* Properties of train_model
\* ------------------------------------------------------------------------

\* The checkpoint file was written by this step.
CheckpointWritten == ckpt_writes' = ckpt_writes + 1
CheckpointUntouched == checkpoint' = checkpoint /\ ckpt_writes' = ckpt_writes

\* C1 as stated: in the decision of every epoch the checkpoint is
\* overwritten if and only if val_ndcg > best_ndcg + 1e-4, and otherwise it
\* is left alone and patience_counter grows by exactly 1.
C1_CheckpointIffImproved ==
    [][pc = "decide" =>
         /\ CheckpointWritten <=> (val_ndcg > best_ndcg + Tol)
         /\ (val_ndcg <= best_ndcg + Tol) =>
               /\ CheckpointUntouched
               /\ patience_counter' = patience_counter + 1]_vars

\* C1 amended: the checkpoint is overwritten if and only if a model_name was
\* given and val_ndcg > best_ndcg + 1e-4; when val_ndcg <= best_ndcg + 1e-4
\* it is left alone and patience_counter grows by exactly 1; no other step
\* of the run touches the checkpoint.
C1_CheckpointIffImprovedAndNamed ==
    [][/\ pc = "decide" =>
            /\ CheckpointWritten <=>
                 (Truthy(model_name) /\ val_ndcg > best_ndcg + Tol)
            /\ CheckpointWritten \/ CheckpointUntouched
            /\ (val_ndcg <= best_ndcg + Tol) =>
                  /\ CheckpointUntouched
                  /\ patience_counter' = patience_counter + 1
       /\ pc # "decide" => CheckpointUntouched]_vars

\* A second epoch that only ties the tolerance (val_ndcg = best + 1e-4)
\* after a checkpointed first epoch: one write, counter 1.
C1_Witness ==
    /\ pc = "for" /\ epoch = 2
    /\ ckpt_writes = 1 /\ ckpt_epoch = 1
    /\ val_ndcg = best_ndcg + Tol
    /\ patience_counter = 1

\* The loop is left by the break of line 136 in this step.
BreakStep == pc = "decide" /\ pc' = "persist"
\* An epoch is started in this step.
EpochStartStep == pc = "for" /\ pc' = "train"

EarlyStopExactly ==
    /\ BreakStep => patience_counter' = PATIENCE
    /\ (pc = "decide" /\ patience_counter' = PATIENCE) => pc' = "persist"
    /\ EpochStartStep => patience_counter < PATIENCE

\* C2 as stated: for every PATIENCE the loop is left by the break exactly in
\* the step that makes patience_counter equal PATIENCE, and no epoch starts
\* with patience_counter already at PATIENCE.
C2_EarlyStopExactlyAtPatience == [][EarlyStopExactly]_vars

\* C2 amended: the same for every PATIENCE >= 1.  (With PATIENCE = 0 the
\* counter is at PATIENCE before the first epoch, and the break comes at the
\* first non-improving epoch, with the counter at 1.)
C2_EarlyStopExactlyAtPositivePatience ==
    [][PATIENCE >= 1 => EarlyStopExactly]_vars

\* Early stop with PATIENCE = 2 that discards remaining epochs.
C2_Witness ==
    /\ pc = "persist" /\ PATIENCE = 2 /\ patience_counter = 2
    /\ epoch < epochs

\* Sequence s is a prefix of sequence t.
IsPrefix(s, t) == Len(s) <= Len(t) /\ \A j \in 1..Len(s) : s[j] = t[j]

\* The record of the epoch just validated is not appended yet: lines 111-121
\* lie between the validation and the append (and line 115 may raise).
RecordPending ==
    \/ pc \in {"sched", "append"}
    \/ pc = "raised" /\ error = "ZeroDivisionError:115"

C4_HistoryPersistedOnEveryExit ==
    /\ (file_writes > 0) => (pc \in {"return", "done"} /\ file_writes = 1)
    /\ (/\ pc \in {"done", "raised"}
        /\ error # "RuntimeError"
        /\ n_train > 0 /\ n_val > 0 /\ epochs > 0) =>
           /\ pc = "done"
           /\ file_writes = 1
           /\ results_file = <<history>>
           /\ returned = <<history>>

\* Batches per training pass: range(0, n_train, BATCH_SIZE).
NumTrainBatches == (n_train + BATCH_SIZE - 1) \div BATCH_SIZE

\* The run stands between two epochs or after the loop.
EpochClosed == pc \in {"for", "persist", "return", "done"} /\ Len(history) >= 1

HistoryNdcgs == {history[j].val_ndcg : j \in 1..Len(history)}

\* C5 as stated: after every completed epoch the checkpoint on disk (once
\* the run has written one) holds the parameters of the epoch with the
\* highest val_ndcg so far.
C5_CheckpointIsArgmaxEpoch ==
    (EpochClosed /\ checkpoint # <<>>) =>
       /\ ckpt_epoch \in 1..Len(history)
       /\ history[ckpt_epoch].val_ndcg = MaxOfSet(HistoryNdcgs)
       /\ checkpoint = <<ckpt_epoch * NumTrainBatches>>

\* C5 amended: after every completed epoch, a checkpoint exists exactly when
\* a model_name was given and some epoch so far had val_ndcg > 1e-4; it then
\* holds the parameters of the most recent improving epoch, whose val_ndcg
\* is best_ndcg, is higher than that of every earlier epoch, and is exceeded
\* by no epoch so far by more than 1e-4.
C5_CheckpointIsLastImprovingEpoch ==
    EpochClosed =>
       /\ (checkpoint # <<>>) <=>
             (Truthy(model_name) /\ \E v \in HistoryNdcgs : v > Tol)
       /\ (checkpoint # <<>>) =>
             /\ ckpt_epoch \in 1..Len(history)
             /\ checkpoint = <<ckpt_epoch * NumTrainBatches>>
             /\ history[ckpt_epoch].val_ndcg = best_ndcg
             /\ \A j \in 1..Len(history) :
                  /\ history[j].val_ndcg <= best_ndcg + Tol
                  /\ j < ckpt_epoch => history[j].val_ndcg < best_ndcg

\* The checkpoint is that of epoch 1 although epoch 2 scored higher (by
\* exactly the tolerance).
C5_Witness ==
    /\ pc = "for" /\ Len(history) = 2
    /\ checkpoint # <<>> /\ ckpt_epoch = 1
    /\ history[2].val_ndcg = history[1].val_ndcg + Tol

\* ------------------------------------------------------------------------
\* Properties of pad_sequence, mask_items and load_processed_data
\* ------------------------------------------------------------------------

\* The padded sequence of row k of the batch.
PaddedRow(k) == pad_sequence(seqs[k], seq_len)

\* The rows built so far have the shape of the padded rows.
RowsAligned ==
    /\ Len(labels) = Len(masked_seqs)
    /\ Len(masked_seqs) <= Len(seqs)
    /\ \A k \in DOMAIN masked_seqs :
         /\ Len(masked_seqs[k]) = Len(PaddedRow(k))
         /\ Len(labels[k]) = Len(PaddedRow(k))

\* C6: at every position of every row, masked = MASK_ID implies the label is
\* the original non-zero item, a non-zero label implies masked = MASK_ID,
\* and everywhere else masked is the original value and the label is 0.
C6_MaskedIffLabelled ==
    /\ RowsAligned
    /\ \A k \in DOMAIN masked_seqs : \A p \in DOMAIN masked_seqs[k] :
         LET orig == PaddedRow(k)[p]
             m == masked_seqs[k][p]
             l == labels[k][p]
         IN  /\ m = MASK_ID => (l = orig /\ orig # 0)
             /\ l # 0 => m = MASK_ID
             /\ m # MASK_ID => (m = orig /\ l = 0)

\* A returned batch of two rows, one of them with a masked and an unmasked
\* item side by side.
C6_Witness ==
    /\ mpc = "done" /\ Len(masked_seqs) = 2
    /\ \E k \in DOMAIN masked_seqs : \E p, q \in DOMAIN masked_seqs[k] :
         /\ masked_seqs[k][p] = MASK_ID /\ labels[k][p] = PaddedRow(k)[p]
         /\ masked_seqs[k][q] = PaddedRow(k)[q] /\ PaddedRow(k)[q] # 0
         /\ labels[k][q] = 0

\* load_processed_data has returned num_items.
Loaded == mpc \notin {"load"} /\ num_items # 0

\* The items of a split.
ItemsOf(split) ==
    {x \in Items : \E a \in DOMAIN split : \E b \in DOMAIN split[a] :
                     split[a][b] = x}

\* C7: with num_items as returned by load_processed_data, MASK_ID is
\* num_items + 1, is not 0, no item of any split equals MASK_ID or exceeds
\* num_items, and MASK_ID appears in masked rows only where an item was
\* masked (its label is the item).
C7_MaskIdNeverCollides ==
    Loaded =>
       /\ MASK_ID = num_items + 1
       /\ MASK_ID # 0
       /\ \A x \in ItemsOf(train_seqs) \cup ItemsOf(val_seqs)
                     \cup ItemsOf(test_seqs) :
            x # MASK_ID /\ x <= num_items
       /\ \A k \in DOMAIN masked_seqs : \A p \in DOMAIN masked_seqs[k] :
            masked_seqs[k][p] = MASK_ID =>
               (labels[k][p] # 0 /\ labels[k][p] = PaddedRow(k)[p])

\* num_items comes from a held-out split (every train item is smaller), and
\* a batch with a masked item has been returned.
C7_Witness ==
    /\ mpc = "done"
    /\ num_items = MaxItem
    /\ \A x \in ItemsOf(train_seqs) : x < num_items
    /\ \E k \in DOMAIN masked_seqs : \E p \in DOMAIN masked_seqs[k] :
         masked_seqs[k][p] = MASK_ID

\* C8: wherever the padded sequence holds 0, masked and label are 0, for
\* every mask_prob.
C8_PaddingNeverMasked ==
    /\ RowsAligned
    /\ \A k \in DOMAIN masked_seqs : \A p \in DOMAIN masked_seqs[k] :
         PaddedRow(k)[p] = 0 =>
            (masked_seqs[k][p] = 0 /\ labels[k][p] = 0)

\* mask_prob = 1: an empty sequence gave an all-zero row, and another row
\* has its padding kept and its item masked.
C8_Witness ==
    /\ mpc = "done" /\ mask_prob = RandRes /\ seq_len = MaxSeqLen
    /\ \E k \in DOMAIN masked_seqs :
         /\ seqs[k] = <<>>
         /\ masked_seqs[k] = Zeros(seq_len) /\ labels[k] = Zeros(seq_len)
    /\ \E k \in DOMAIN masked_seqs :
         /\ masked_seqs[k][1] = 0 /\ labels[k][1] = 0
         /\ masked_seqs[k][seq_len] = MASK_ID

\* The sequence that line 28 has just padded.
CurrentSeq == seqs[Len(masked_seqs) + 1]

\* C9: for len(s) <= seq_len, pad_sequence(s, seq_len) has length seq_len,
\* ends with s in order and starts with seq_len - len(s) zeros.
C9_PadShortSequence ==
    (mpc = "item" /\ Len(CurrentSeq) <= seq_len) =>
       /\ Len(padded) = seq_len
       /\ \A j \in 1..Len(CurrentSeq) :
            padded[seq_len - Len(CurrentSeq) + j] = CurrentSeq[j]
       /\ \A j \in 1..(seq_len - Len(CurrentSeq)) : padded[j] = 0

\* A one-item sequence padded to length 2.
C9_Witness ==
    /\ mpc = "item" /\ pos = 1 /\ seq_len = 2
    /\ Len(CurrentSeq) = 1 /\ CurrentSeq[1] # 0
    /\ padded = <<0, CurrentSeq[1]>>

\* C10: for len(s) > seq_len, pad_sequence(s, seq_len) is the last seq_len
\* elements of s, of length seq_len.
C10_PadLongSequence ==
    (mpc = "item" /\ Len(CurrentSeq) > seq_len) =>
       /\ Len(padded) = seq_len
       /\ \A j \in 1..seq_len :
            padded[j] = CurrentSeq[Len(CurrentSeq) - seq_len + j]

\* C11: with mask_prob = 1, whatever random.random() returns, every non-zero
\* position of every padded sequence becomes MASK_ID with the original item
\* as its label, and the label is 0 exactly at the padding positions.
C11_ProbOneMasksEveryItem ==
    mask_prob = RandRes =>
       /\ RowsAligned
       /\ \A k \in DOMAIN masked_seqs : \A p \in DOMAIN masked_seqs[k] :
            LET orig == PaddedRow(k)[p]
            IN  /\ orig # 0 => (/\ masked_seqs[k][p] = MASK_ID
                                /\ labels[k][p] = orig)
                /\ orig = 0 => masked_seqs[k][p] = 0
                /\ labels[k][p] = 0 <=> orig = 0

\* mask_prob = 1: a returned batch of two rows of different history length,
\* a row <<0, MASK_ID>> with labels <<0, item>> next to a row all MASK_ID.
C11_Witness ==
    /\ mpc = "done" /\ mask_prob = RandRes /\ seq_len = 2
    /\ Len(masked_seqs) = 2
    /\ Len(seqs[1]) = 2 /\ seqs[1][1] # 0 /\ seqs[1][2] # 0
    /\ Len(seqs[2]) = 1 /\ seqs[2][1] # 0
    /\ masked_seqs[1] = <<MASK_ID, MASK_ID>> /\ labels[1] = seqs[1]
    /\ masked_seqs[2] = <<0, MASK_ID>> /\ labels[2] = <<0, seqs[2][1]>>

\* C12: with mask_prob = 0, whatever random.random() returns, no position is
\* masked: masked_inputs are the padded sequences and every label is 0.
C12_ProbZeroMasksNothing ==
    mask_prob = 0 =>
       /\ RowsAligned
       /\ \A k \in DOMAIN masked_seqs :
            /\ masked_seqs[k] = PaddedRow(k)
            /\ labels[k] = Zeros(Len(PaddedRow(k)))

\* mask_prob = 0: a returned batch of two rows with items, both unchanged.
C12_Witness ==
    /\ mpc = "done" /\ mask_prob = 0 /\ seq_len = 2
    /\ Len(masked_seqs) = 2
    /\ Len(seqs[1]) = 2 /\ seqs[1][1] # 0 /\ seqs[1][2] # 0
    /\ Len(seqs[2]) = 1 /\ seqs[2][1] # 0
    /\ masked_seqs[1] = seqs[1] /\ labels[1] = <<0, 0>>
    /\ masked_seqs[2] = <<0, seqs[2][1]>> /\ labels[2] = <<0, 0>>

\* ------------------------------------------------------------------------
\* Further properties of train_model
\* ------------------------------------------------------------------------

\* The forward, backward or optimizer step raises in this step.
TrainFailStep == error # "RuntimeError" /\ error' = "RuntimeError"

\* C13: a failing training step of epoch e aborts the run at once and
\* nothing retries it: the failing step writes no checkpoint, leaves the
\* last improving checkpoint, the history and the history file alone, no
\* step follows it, and no record of epoch e and no history file exist.
C13_TrainFailureAbortsRun ==
    /\ [][/\ TrainFailStep =>
               /\ pc' = "raised"
               /\ CheckpointUntouched /\ ckpt_epoch' = ckpt_epoch
               /\ history' = history
               /\ results_file' = results_file /\ file_writes' = file_writes
               /\ params' = params /\ returned' = returned
          /\ error # "RuntimeError"]_vars
    /\ [](error = "RuntimeError" =>
             /\ pc = "raised"
             /\ Len(history) = epoch - 1
             /\ \A j \in 1..Len(history) : history[j].epoch # epoch
             /\ ckpt_epoch < epoch
             /\ results_file = <<>> /\ file_writes = 0
             /\ returned = <<>>)

\* The second batch of epoch 2 fails after epoch 1 was checkpointed: the
\* checkpoint is still that of epoch 1 and history holds epoch 1 only.
C13_Witness ==
    /\ pc = "raised" /\ error = "RuntimeError"
    /\ epoch = 2 /\ i > 0 /\ i < n_train
    /\ checkpoint # <<>> /\ ckpt_epoch = 1 /\ ckpt_writes = 1
    /\ params > checkpoint[1]
    /\ Len(history) = 1
    /\ results_file = <<>>

\* A step of evaluate_val_loss (entered at line 106, left at line 59).
ValLossStep == (pc = "train" /\ pc' = "val") \/ pc = "val"

\* What evaluate_val_loss never writes: parameters, datasets, best_ndcg, the
\* stall counter, history, optimizer and scheduler state, training
\* accumulators, checkpoint and results file.
ValLossFrame ==
    UNCHANGED <<params, n_train, n_val, best_ndcg, patience_counter, history,
                lr, sched_best, num_bad_epochs, sched_steps, train_loss,
                current_lr, epoch, checkpoint, ckpt_epoch, ckpt_writes,
                results_file, file_writes, returned>>

\* C16 as stated: no step of evaluate_val_loss changes any shared state, the
\* pseudo-random source and the model's train/eval mode included.
C16_ValLossChangesNothing ==
    [][ValLossStep =>
         (ValLossFrame /\ UNCHANGED <<rng_draws, model_mode>>)]_vars

\* C16 amended: evaluate_val_loss changes no shared state except that it
\* leaves the model in eval mode and draws from the pseudo-random source
\* once per validation sequence masked: after the validation of epoch e the
\* source has been drawn from e times for each shuffle, training pass and
\* validation pass.
C16_ValLossOnlySetsEvalAndDraws ==
    /\ [][ValLossStep =>
             /\ ValLossFrame
             /\ model_mode' = "eval"
             /\ rng_draws' - rng_draws =
                  fed' - (IF pc = "val" THEN fed ELSE 0)]_vars
    /\ [](pc \in {"metrics", "sched", "append", "decide"} =>
             /\ model_mode = "eval"
             /\ rng_draws =
                  epoch * (ShuffleDraws(n_train) + n_train + n_val))

\* evaluate_val_loss has returned in epoch 1 over a non-empty val_data: the
\* model, in train mode during the batches, is in eval mode, the source
\* has moved on by n_val, and the parameters are those training left.
C16_Witness ==
    /\ pc = "metrics" /\ epoch = 1 /\ n_val >= 1 /\ n_train >= 1
    /\ model_mode = "eval"
    /\ rng_draws = ShuffleDraws(n_train) + n_train + n_val
    /\ params = NumTrainBatches
    /\ history = <<>> /\ best_ndcg = 0 /\ patience_counter = 0

\* The order of the steps of an epoch (lines 84-136).
EpochStepOrder ==
    /\ pc = "for" => pc' \in {"train", "persist"}
    /\ pc = "train" => pc' \in {"train", "val", "raised"}
    /\ pc = "val" => pc' \in {"val", "metrics", "raised"}
    /\ pc = "metrics" => pc' = "sched"
    /\ pc = "sched" => pc' = "append"
    /\ pc = "append" => pc' \in {"decide", "raised"}
    /\ pc = "decide" => pc' \in {"for", "persist"}

\* What each step of the order does, and that it finds the earlier steps
\* done.
EpochStepContent ==
    /\ (pc = "for" /\ pc' = "train") =>
          /\ rng_draws' = rng_draws + ShuffleDraws(n_train)
          /\ params' = params
    /\ (pc = "train" /\ pc' = "val") =>
          /\ fed = n_train
          /\ params' = params
    /\ (pc = "val" /\ pc' = "metrics") =>
          /\ fed = n_val
          /\ val_loss' = <<total_loss, n_val>>
    /\ pc = "metrics" =>
          /\ sched_steps' = sched_steps
          /\ history' = history
    /\ pc = "sched" =>
          /\ sched_steps' = sched_steps + 1
          /\ sched_best' = (IF val_ndcg > sched_best THEN val_ndcg
                                                     ELSE sched_best)
          /\ n_train > 0 => (current_lr = <<lr>> /\ current_lr' = current_lr)
          /\ history' = history
          /\ val_ndcg' = val_ndcg
    /\ (pc = "append" /\ pc' = "decide") =>
          /\ Len(history') = Len(history) + 1
          /\ history'[Len(history')].lr = current_lr[1]
          /\ history'[Len(history')].val_ndcg = val_ndcg
          /\ lr' = lr
          /\ CheckpointUntouched /\ patience_counter' = patience_counter
    /\ pc # "sched" => (sched_steps' = sched_steps /\ lr' = lr)

\* C17: an epoch runs shuffle, all training batches, validation loss,
\* ranking metrics, one scheduler step fed with the epoch's val_ndcg, the
\* history append and the decision, in this order; there is one scheduler
\* step per validated epoch; and the lr of the epoch's record is the one
\* read during the last training batch, the value before the epoch's
\* scheduler step.
C17_EpochOrderAndRecordedLr ==
    /\ [][EpochStepOrder /\ EpochStepContent]_vars
    /\ [](/\ sched_steps = validated - (IF pc = "sched" THEN 1 ELSE 0)
          /\ sched_steps <= epoch)

\* The scheduler step of epoch SchedPatience + 2 has reduced the learning
\* rate; the record of that epoch, just appended, holds the rate before
\* the reduction.
C17_Witness ==
    /\ pc = "decide" /\ epoch = SchedPatience + 2
    /\ Len(history) = epoch
    /\ lr = 1
    /\ history[epoch].lr = 0
    /\ sched_steps = epoch

\* ceil(n / b) for b >= 1.
CeilDiv(n, b) == (n + b - 1) \div b

\* The step builds, masks and feeds one batch of a dataset of n sequences:
\* it takes the sequences after those already fed, in list order, a full
\* BATCH_SIZE of them unless it is the last batch of the pass.
BatchStepOf(n) ==
    LET len == fed' - fed
    IN  /\ batches' = batches + 1
        /\ i = fed
        /\ len >= 1 /\ len <= BATCH_SIZE
        /\ fed' <= n
        /\ len < BATCH_SIZE => fed' = n

\* The pass over a dataset of n sequences is complete.
PassComplete(n) == batches = CeilDiv(n, BATCH_SIZE) /\ fed = n

\* C18: the training pass and evaluate_val_loss cut their n sequences into
\* ceil(n / BATCH_SIZE) contiguous batches in list order, all of BATCH_SIZE
\* sequences but possibly the last, which has 1 to BATCH_SIZE; each
\* sequence is fed in exactly one batch of the pass; and the summed batch
\* losses are divided by n.
C18_BatchesPartitionDataset ==
    /\ [][/\ (pc = "train" /\ pc' = "train") => BatchStepOf(n_train)
          /\ (pc = "val" /\ pc' = "val") => BatchStepOf(n_val)
          /\ (pc = "train" /\ pc' = "val") => PassComplete(n_train)
          /\ (pc = "val" /\ pc' \in {"metrics", "raised"}) =>
                PassComplete(n_val)
          /\ (pc = "val" /\ pc' = "metrics") =>
                val_loss' = <<CeilDiv(n_val, BATCH_SIZE), n_val>>]_vars
    /\ [](\A j \in DOMAIN history :
             /\ history[j].train_loss =
                  <<CeilDiv(n_train, BATCH_SIZE), n_train>>
             /\ history[j].val_loss =
                  <<CeilDiv(n_val, BATCH_SIZE), n_val>>)

\* Three sequences in batches of two, for training and for validation: a
\* full batch and a last batch of one, two batch losses over three
\* sequences.
C18_Witness ==
    /\ pc = "decide" /\ epoch = 1
    /\ BATCH_SIZE = 2 /\ n_train = 3 /\ n_val = 3
    /\ batches = 2 /\ fed = 3
    /\ params = 2
    /\ Len(history) = 1
    /\ history[1].train_loss = <<2, 3>>
    /\ history[1].val_loss = <<2, 3>>

\* best_ndcg after the first k records of history, recomputed from the
\* records alone (0.0 before the first).
RECURSIVE BestAfter(_)
BestAfter(k) ==
    IF k = 0 THEN 0
    ELSE IF history[k].val_ndcg > BestAfter(k - 1) + Tol
           THEN history[k].val_ndcg
           ELSE BestAfter(k - 1)

\* Epoch k of history was an improving epoch.
ImprovingEpoch(k) == history[k].val_ndcg > BestAfter(k - 1) + Tol

\* The most recent improving epoch of history (0 if there is none).
LastImproving ==
    MaxOfSet({0} \cup {k \in DOMAIN history : ImprovingEpoch(k)})

\* The non-improving epochs since the last improving one (or the start).
TrailingStalls == Len(history) - LastImproving

\* C19: with PATIENCE >= 1, whenever an epoch starts patience_counter is at
\* least 0 and below PATIENCE; outside the decision step it is the number
\* of non-improving epochs since the last improving epoch (or the start);
\* an improving epoch sets it to 0, a non-improving one adds 1, and no
\* other step changes it.
C19_CounterCountsTrailingStalls ==
    /\ [](PATIENCE >= 1 =>
             /\ pc \in {"for", "train"} =>
                   (patience_counter >= 0 /\ patience_counter < PATIENCE)
             /\ pc # "decide" => patience_counter = TrailingStalls)
    /\ [][PATIENCE >= 1 =>
             /\ pc # "decide" => patience_counter' = patience_counter
             /\ (pc = "decide" /\ val_ndcg > best_ndcg + Tol) =>
                   patience_counter' = 0
             /\ (pc = "decide" /\ val_ndcg <= best_ndcg + Tol) =>
                   patience_counter' = patience_counter + 1]_vars

\* Epoch 3 starts after an improving epoch 1 and a non-improving epoch 2,
\* with the counter at 1 of a patience of 2.
C19_Witness ==
    /\ pc = "train" /\ epoch = 3 /\ i = 0
    /\ PATIENCE = 2
    /\ Len(history) = 2
    /\ ImprovingEpoch(1) /\ ~ImprovingEpoch(2)
    /\ patience_counter = 1

\* best_ndcg starts at 0.0, never decreases, and changes only in the
\* decision of an improving epoch, where it becomes that epoch's val_ndcg.
BestMovesOnlyUp ==
    /\ [](epoch = 0 => best_ndcg = 0)
    /\ [][/\ best_ndcg' >= best_ndcg
          /\ best_ndcg' # best_ndcg =>
                /\ pc = "decide"
                /\ val_ndcg > best_ndcg + Tol
                /\ best_ndcg' = val_ndcg]_vars

\* No epoch so far exceeds best_ndcg by more than the tolerance, and a run
\* whose epochs all stayed within the tolerance of 0.0 wrote no checkpoint.
BestBoundsHistory ==
    /\ EpochClosed => \A v \in HistoryNdcgs : v <= best_ndcg + Tol
    /\ (\A v \in HistoryNdcgs : v <= Tol) => ckpt_writes = 0

\* C20 as stated: best_ndcg starts at 0.0, only moves up, and only in an
\* improving epoch; after every epoch it is 0.0 or the val_ndcg of the most
\* recently checkpointed epoch; no epoch so far exceeds it by more than
\* 1e-4; and without an epoch above 1e-4 no checkpoint is written.
C20_BestIsLastCheckpointedNdcg ==
    /\ BestMovesOnlyUp
    /\ [](BestBoundsHistory)
    /\ [](EpochClosed =>
             \/ best_ndcg = 0
             \/ /\ checkpoint # <<>>
                /\ ckpt_epoch \in DOMAIN history
                /\ history[ckpt_epoch].val_ndcg = best_ndcg)

\* C20 amended: the same, with best_ndcg after every epoch being 0.0 (no
\* improving epoch yet) or the val_ndcg of the most recent improving epoch,
\* which is the most recently checkpointed epoch if a model_name was given;
\* without a model_name nothing is checkpointed at all.
C20_BestIsLastImprovingNdcg ==
    /\ BestMovesOnlyUp
    /\ [](BestBoundsHistory)
    /\ [](EpochClosed =>
             /\ best_ndcg = BestAfter(Len(history))
             /\ LastImproving = 0 => best_ndcg = 0
             /\ LastImproving > 0 =>
                   best_ndcg = history[LastImproving].val_ndcg
             /\ IF Truthy(model_name)
                  THEN ckpt_epoch = LastImproving
                  ELSE ckpt_writes = 0 /\ checkpoint = <<>>)

\* Without a model_name: epoch 1 improved, epoch 2 scored higher by exactly
\* the tolerance, best_ndcg is still that of epoch 1 and nothing was
\* checkpointed.
C20_Witness ==
    /\ pc = "for" /\ Len(history) = 2
    /\ model_name = None
    /\ best_ndcg > 0
    /\ history[1].val_ndcg = best_ndcg
    /\ history[2].val_ndcg = best_ndcg + Tol
    /\ ckpt_writes = 0 /\ checkpoint = <<>>

\* ------------------------------------------------------------------------
\* Further properties of mask_items and load_processed_data
\* ------------------------------------------------------------------------

\* mask_prob outside [0, 1] or seq_len not positive.
InvalidConfig == mask_prob < 0 \/ mask_prob > RandRes \/ seq_len <= 0

\* C14: with an invalid mask_prob or seq_len the run fails before any batch
\* is built: no row is ever masked and no batch is ever returned.
C14_InvalidConfigFailsFast ==
    InvalidConfig => (masked_seqs = <<>> /\ mpc # "done")

\* The non-zero items of the three splits together.
NonZeroItems ==
    (ItemsOf(train_seqs) \cup ItemsOf(val_seqs) \cup ItemsOf(test_seqs)) \ {0}

\* C15: once load_processed_data has ended, either a file was absent or the
\* splits hold no non-zero item, and then it raised and returned nothing;
\* or it returned num_items, the largest non-zero item of the three splits.
C15_LoadReturnsMaxOrFails ==
    mpc # "load" =>
       IF missing # {} \/ NonZeroItems = {}
         THEN /\ mpc = "raised"
              /\ merror = (IF missing # {} THEN "FileNotFoundError"
                                           ELSE "ValueError:153")
              /\ num_items = 0
              /\ seqs = <<>>
         ELSE /\ merror \notin {"FileNotFoundError", "ValueError:153"}
              /\ num_items \in NonZeroItems
              /\ \A x \in NonZeroItems : x <= num_items

\* Only test_seqs.pkl is absent while the train split holds items: the
\* load raised and no num_items came back.
C15_Witness ==
    /\ mpc = "raised" /\ merror = "FileNotFoundError"
    /\ missing = {"test_seqs.pkl"}
    /\ ItemsOf(train_seqs) \ {0} # {}
    /\ num_items = 0
====
